---- MODULE Spec2Model ----
(***************************************************************************)
(* JsonSchemaModule (src/lib/Compiler.js): the schema registry of the      *)
(* Adapt authoring tool.  The module keeps a catalog of schema units       *)
(* (this.schemas), a ledger of extension relationships waiting for their   *)
(* base schema (this.schemaExtensions) and the validation engine           *)
(* (this.validator) with its string formats and keywords.                  *)
(*                                                                         *)
(* registerSchema is an async function: everything up to the await of      *)
(* createSchema(...) runs when it is called, everything after it runs as   *)
(* one uninterrupted continuation once the file has been loaded.  Any      *)
(* other call may run between the two halves.                              *)
(***************************************************************************)
EXTENDS Integers, Sequences, FiniteSets, Bags, TLC

VARIABLES
  pc,                \* position of init()'s promise chain (lines 15-52)
  config,            \* value of getConfig('formatOverrides')
  formats,           \* this.validator's formats: name -> installed pattern
  keywords,          \* this.validator's keywords
  schemas,           \* this.schemas: name -> unit
  schemaExtensions,  \* this.schemaExtensions: awaited name -> pending names
  tasks,             \* registerSchema calls suspended at `await createSchema`
  passes,            \* registerSchemas calls that have not finished
  log,               \* what the last step handed to this.log
  ret,               \* how the last public call that settled ended
  ord                \* the registries of the order experiments (SpecOrder)

vars == <<pc, config, formats, keywords, schemas, schemaExtensions, tasks,
          passes, log, ret, ord>>

(***************************************************************************)
(* Bounds of the model.                                                    *)
(***************************************************************************)
\* longest pending list a ledger entry may reach
MaxLedger == 2
\* most registerSchema calls from outside a pass suspended at one time
MaxInFlight == 1
\* most registerSchemas passes running at one time
MaxPasses == 1

(***************************************************************************)
(* Names, documents and files.                                             *)
(***************************************************************************)
Names == {"a", "b", "c"}

\* The property key JavaScript uses for the value undefined: obj[undefined]
\* reads and writes obj["undefined"].
Undefined == "undefined"

\* A document as load() finds it: ok is FALSE for a file that cannot be read
\* or parsed; hasPatch says raw.$patch is truthy; ref is
\* raw.$patch?.source?.$ref, Undefined when the document gives none.
Doc(ok, name, hasPatch, ref) ==
  [ok |-> ok, name |-> name, hasPatch |-> hasPatch, ref |-> ref]

\* The schema files of the model: two files that both declare schema a, two
\* extensions of a, a document with $patch but no source, a malformed file,
\* and an extension of a that no dependency holds (no glob finds it).
Paths == 1..7

File(filePath) ==
  CASE filePath = 1 -> Doc(TRUE, "a", FALSE, Undefined)
    [] filePath = 2 -> Doc(TRUE, "a", FALSE, Undefined)
    [] filePath = 3 -> Doc(TRUE, "b", TRUE, "a")
    [] filePath = 4 -> Doc(TRUE, "c", TRUE, "a")
    [] filePath = 5 -> Doc(TRUE, "c", TRUE, Undefined)
    [] filePath = 7 -> Doc(TRUE, "d", TRUE, "a")
    [] OTHER -> Doc(FALSE, Undefined, FALSE, Undefined)

\* A handle that is not a string (registerSchema's first check).
NotAString == 0

\* this.app.dependencies and what glob finds under each rootDir, in glob's
\* sorted order.
Deps == {1, 2}

GlobFiles(d) == IF d = 1 THEN <<1, 3>> ELSE <<2, 4, 6>>

PassIds == 1..MaxPasses

\* the owner of a registerSchema call made from outside a pass
Api == <<0, 0>>

(***************************************************************************)
(* Small helpers.                                                          *)
(***************************************************************************)
Range(s) == {s[i] : i \in DOMAIN s}

\* delete obj[key]
Delete(obj, key) == [k \in (DOMAIN obj) \ {key} |-> obj[k]]

\* obj[key] = value
Put(obj, key, value) ==
  [k \in (DOMAIN obj) \cup {key} |-> IF k = key THEN value ELSE obj[k]]

LogEntry(level, msg, name, filePath) ==
  [level |-> level, msg |-> msg, name |-> name, filePath |-> filePath]

\* The outcome of a public call: status is "ok", the name of the error the
\* call threw, or "build" when getSchema handed the call on to the unit.
Ret(op, status, name, filePath) ==
  [op |-> op, status |-> status, name |-> name, filePath |-> filePath,
   compiled |-> TRUE]

NoRet == Ret("none", "none", Undefined, 0)

(***************************************************************************)
(* The schema unit (JsonSchema), as far as the registry uses it.           *)
(***************************************************************************)
\* new JsonSchema({filePath, ...}): no extensions; the name is not known
\* before load() has parsed the document.
NewSchema(filePath) == [filePath |-> filePath, extensions |-> <<>>]

\* schema.addExtension(s): appends s unless it is already listed.
addExtension(extensions, s) ==
  IF s \in Range(extensions) THEN extensions ELSE Append(extensions, s)

\* list.forEach(s => schema.addExtension(s))
RECURSIVE addExtensions(_, _)
addExtensions(extensions, list) ==
  IF list = <<>> THEN extensions
  ELSE addExtensions(addExtension(extensions, Head(list)), Tail(list))

(***************************************************************************)
(* The registry's operations as functions of the registry                  *)
(* R = [schemas, schemaExtensions].                                        *)
(***************************************************************************)
Registry(s, e) == [schemas |-> s, schemaExtensions |-> e]

EmptyRegistry == Registry(<<>>, <<>>)

\* this.schemaExtensions?.[name]: the pending list, nothing when absent
Pending(R, name) ==
  IF name \in DOMAIN R.schemaExtensions THEN R.schemaExtensions[name] ELSE <<>>

\* createSchema, up to the call of schema.load(): the unit is built, then
\* the ledger entry under schema.name is applied to it and deleted; the
\* name is still undefined at that point.
createSchema(R, filePath) ==
  [schema |-> [NewSchema(filePath) EXCEPT
                 !.extensions = addExtensions(@, Pending(R, Undefined))],
   R |-> [R EXCEPT !.schemaExtensions = Delete(@, Undefined)]]

\* deregisterSchema(name), lines 121-124
DeregisterUnapplies(R, name) ==
  IF name \in DOMAIN R.schemas
  THEN [R EXCEPT !.schemas =
          [m \in (DOMAIN R.schemas) \ {name} |->
             [R.schemas[m] EXCEPT !.extensions =
                SelectSeq(@, LAMBDA e : e # name)]]]
  ELSE R

deregisterSchema(R, name) ==
  IF name \in DOMAIN R.schemas
  THEN [R EXCEPT !.schemas = Delete(@, name)]
  ELSE R

\* extendSchema(baseSchemaName, extSchemaName)
ExtendSchemaPrepend(R, baseSchemaName, extSchemaName) ==
  IF baseSchemaName \in DOMAIN R.schemas
  THEN [R EXCEPT !.schemas[baseSchemaName].extensions =
                   addExtension(@, extSchemaName)]
  ELSE [R EXCEPT !.schemaExtensions =
                   Put(@, baseSchemaName,
                       <<extSchemaName>> \o Pending(R, baseSchemaName))]

ExtendSchemaOverwrite(R, baseSchemaName, extSchemaName) ==
  IF baseSchemaName \in DOMAIN R.schemas
  THEN [R EXCEPT !.schemas[baseSchemaName].extensions =
                   addExtension(@, extSchemaName)]
  ELSE [R EXCEPT !.schemaExtensions =
                   Put(@, baseSchemaName, <<extSchemaName>>)]

extendSchema(R, baseSchemaName, extSchemaName) ==
  IF baseSchemaName \in DOMAIN R.schemas
  THEN [R EXCEPT !.schemas[baseSchemaName].extensions =
                   addExtension(@, extSchemaName)]
  ELSE [R EXCEPT !.schemaExtensions =
                   Put(@, baseSchemaName,
                       Append(Pending(R, baseSchemaName), extSchemaName))]

\* registerSchema after the await (lines 105-113), for a unit whose load()
\* succeeded with document doc.  error is "" when the call succeeds.
RegisterNoConflictCheck(R, schema, doc, replace) ==
  LET R1 == deregisterSchema(R, doc.name)
      R2 == [R1 EXCEPT !.schemas = Put(@, doc.name,
               [schema EXCEPT !.extensions =
                  addExtensions(@, Pending(R1, doc.name))])]
      R3 == IF doc.hasPatch THEN extendSchema(R2, doc.ref, doc.name) ELSE R2
  IN  [error |-> "", R |-> R3]

RegisterNoLedger(R, schema, doc, replace) ==
  IF doc.name \in DOMAIN R.schemas /\ ~replace
  THEN [error |-> "SCHEMA_EXISTS", R |-> R]
  ELSE
    LET R1 == IF doc.name \in DOMAIN R.schemas
              THEN deregisterSchema(R, doc.name) ELSE R
        R2 == [R1 EXCEPT !.schemas = Put(@, doc.name, schema)]
        R3 == IF doc.hasPatch THEN extendSchema(R2, doc.ref, doc.name) ELSE R2
    IN  [error |-> "", R |-> R3]

RegisterLastWins(R, schema, doc, replace) ==
  IF /\ doc.name \in DOMAIN R.schemas /\ ~replace
     /\ R.schemas[doc.name].filePath = schema.filePath
  THEN [error |-> "SCHEMA_EXISTS", R |-> R]
  ELSE
    LET R1 == IF doc.name \in DOMAIN R.schemas
              THEN deregisterSchema(R, doc.name) ELSE R
        R2 == [R1 EXCEPT !.schemas = Put(@, doc.name,
                 [schema EXCEPT !.extensions =
                    addExtensions(@, Pending(R1, doc.name))])]
        R3 == IF doc.hasPatch THEN extendSchema(R2, doc.ref, doc.name) ELSE R2
    IN  [error |-> "", R |-> R3]

registerLoaded(R, schema, doc, replace) ==
  IF doc.name \in DOMAIN R.schemas /\ ~replace
  THEN [error |-> "SCHEMA_EXISTS", R |-> R]
  ELSE
    LET R1 == IF doc.name \in DOMAIN R.schemas
              THEN deregisterSchema(R, doc.name) ELSE R
        R2 == [R1 EXCEPT !.schemas = Put(@, doc.name,
                 [schema EXCEPT !.extensions =
                    addExtensions(@, Pending(R1, doc.name))])]
        R3 == IF doc.hasPatch THEN extendSchema(R2, doc.ref, doc.name) ELSE R2
    IN  [error |-> "", R |-> R3]

\* The whole await-continuation of registerSchema: load() rejects for a
\* file that cannot be read or parsed, otherwise lines 105-113 run.
settleRegister(R, schema, doc, replace) ==
  IF ~doc.ok THEN [error |-> "LOAD_ERROR", R |-> R]
  ELSE registerLoaded(R, schema, doc, replace)

\* would this continuation push onto a ledger entry that is already full?
LedgerFull(R, doc) ==
  /\ doc.ok /\ doc.hasPatch
  /\ Len(Pending(R, doc.ref)) >= MaxLedger

(***************************************************************************)
(* Suspended registerSchema calls and running registerSchemas passes.      *)
(***************************************************************************)
Task(filePath, replace, schema, owner) ==
  [filePath |-> filePath, replace |-> replace, schema |-> schema,
   owner |-> owner]

ApiTasks == {t \in BagToSet(tasks) : t.owner = Api}

ApiInFlight == BagCardinality([t \in ApiTasks |-> tasks[t]])

Result(filePath, error, name) ==
  [filePath |-> filePath,
   status |-> IF error = "" THEN "fulfilled" ELSE "rejected",
   reason |-> error, name |-> name]

NewPass ==
  [status |-> "pending",
   deps |-> [d \in Deps |-> [st |-> "glob", results |-> {}]]]

Finished(pass) == \A d \in Deps : pass.deps[d].st \in {"done", "failed"}

\* a pass whose every dependency task has ended is dropped from the model
Retire(ps, i) == IF Finished(ps[i]) THEN Delete(ps, i) ELSE ps

(***************************************************************************)
(* registerSchema(filePath, options)                                       *)
(***************************************************************************)
\* lines 100-102: a handle that is not a string
RegisterSchemaInvalid ==
  /\ pc # "init"
  /\ ret' = Ret("registerSchema", "INVALID_PARAMS", Undefined, NotAString)
  /\ log' = <<>>
  /\ UNCHANGED <<pc, config, formats, keywords, schemas, schemaExtensions,
                 tasks, passes, ord>>

\* lines 100-103 up to the await: createSchema builds the unit and starts
\* its load
RegisterSchema(filePath, replace) ==
  /\ pc # "init"
  /\ ApiInFlight < MaxInFlight
  /\ LET c == createSchema(Registry(schemas, schemaExtensions), filePath)
     IN  /\ schemaExtensions' = c.R.schemaExtensions
         /\ tasks' = tasks (+) SetToBag({Task(filePath, replace, c.schema, Api)})
  /\ log' = <<>>
  /\ ret' = NoRet
  /\ UNCHANGED <<pc, config, formats, keywords, schemas, passes, ord>>

\* what lines 105-113 log for a continuation that succeeds
RegisterLog(t, doc) ==
  (IF doc.name \in DOMAIN schemas
   THEN <<LogEntry("debug", "DEREGISTER_SCHEMA", doc.name, 0)>> ELSE <<>>)
  \o (IF doc.hasPatch
      THEN <<LogEntry("debug", "EXTEND_SCHEMA", doc.ref, 0)>> ELSE <<>>)
  \o <<LogEntry("debug", "REGISTER_SCHEMA", doc.name, t.filePath)>>

\* the continuation of registerSchema after the await (lines 103-113)
SettleRegister(t) ==
  /\ t \in BagToSet(tasks)
  /\ ~LedgerFull(Registry(schemas, schemaExtensions), File(t.filePath))
  /\ LET doc == File(t.filePath)
         r == settleRegister(Registry(schemas, schemaExtensions), t.schema,
                             doc, t.replace)
     IN  /\ schemas' = r.R.schemas
         /\ schemaExtensions' = r.R.schemaExtensions
         /\ log' = IF r.error = "" THEN RegisterLog(t, doc) ELSE <<>>
         /\ IF t.owner = Api
            THEN /\ ret' = Ret("registerSchema",
                               IF r.error = "" THEN "ok" ELSE r.error,
                               doc.name, t.filePath)
                 /\ passes' = passes
            ELSE /\ ret' = NoRet
                 /\ passes' = [passes EXCEPT
                      ![t.owner[1]].deps[t.owner[2]].results =
                        @ \cup {Result(t.filePath, r.error, doc.name)}]
  /\ tasks' = tasks (-) SetToBag({t})
  /\ UNCHANGED <<pc, config, formats, keywords, ord>>

(***************************************************************************)
(* deregisterSchema(name), extendSchema(base, ext), getSchema(name, opts)  *)
(***************************************************************************)
DeregisterSchema(name) ==
  /\ pc # "init"
  /\ LET R == deregisterSchema(Registry(schemas, schemaExtensions), name)
     IN  /\ schemas' = R.schemas
         /\ schemaExtensions' = R.schemaExtensions
  /\ log' = <<LogEntry("debug", "DEREGISTER_SCHEMA", name, 0)>>
  /\ ret' = Ret("deregisterSchema", "ok", name, 0)
  /\ UNCHANGED <<pc, config, formats, keywords, tasks, passes, ord>>

ExtendSchema(baseSchemaName, extSchemaName) ==
  /\ pc # "init"
  /\ Len(Pending(Registry(schemas, schemaExtensions), baseSchemaName)) < MaxLedger
  /\ LET R == extendSchema(Registry(schemas, schemaExtensions),
                           baseSchemaName, extSchemaName)
     IN  /\ schemas' = R.schemas
         /\ schemaExtensions' = R.schemaExtensions
  /\ log' = <<LogEntry("debug", "EXTEND_SCHEMA", baseSchemaName, 0)>>
  /\ ret' = Ret("extendSchema", "ok", baseSchemaName, 0)
  /\ UNCHANGED <<pc, config, formats, keywords, tasks, passes, ord>>

\* getSchema: NOT_FOUND for an absent name, otherwise schema.build(options)
GetSchemaBuildsMissing(R, schemaName, compiled) ==
  [Ret("getSchema", "build", schemaName,
       IF schemaName \in DOMAIN R.schemas
       THEN R.schemas[schemaName].filePath ELSE 0)
     EXCEPT !.compiled = compiled]

getSchema(R, schemaName, compiled) ==
  IF schemaName \notin DOMAIN R.schemas
  THEN Ret("getSchema", "NOT_FOUND", schemaName, 0)
  ELSE [Ret("getSchema", "build", schemaName, R.schemas[schemaName].filePath)
          EXCEPT !.compiled = compiled]

GetSchema(schemaName, compiled) ==
  /\ pc # "init"
  /\ ret' = getSchema(Registry(schemas, schemaExtensions), schemaName, compiled)
  /\ log' = <<>>
  /\ UNCHANGED <<pc, config, formats, keywords, schemas, schemaExtensions,
                 tasks, passes, ord>>

(***************************************************************************)
(* registerSchemas()                                                       *)
(***************************************************************************)
\* line 82 and the start of one task per dependency (line 83)
registerSchemas ==
  /\ \E i \in PassIds :
       /\ i \notin DOMAIN passes
       /\ \A j \in PassIds : j < i => j \in DOMAIN passes
       /\ passes' = Put(passes, i, NewPass)
  /\ schemas' = <<>>
  /\ log' = <<>>
  /\ ret' = NoRet
  /\ UNCHANGED <<config, formats, keywords, schemaExtensions, tasks, ord>>

\* registerSchemas() called once the module is in service
RegisterSchemas ==
  /\ pc = "done"
  /\ registerSchemas
  /\ UNCHANGED pc

\* files.map(f => this.registerSchema(f)): every call runs up to its await,
\* one after the other
RECURSIVE startAll(_, _, _, _)
startAll(R, files, owner, started) ==
  IF files = <<>> THEN [R |-> R, started |-> started]
  ELSE LET c == createSchema(R, Head(files))
       IN  startAll(c.R, Tail(files), owner,
                    started (+) SetToBag({Task(Head(files), FALSE, c.schema, owner)}))

\* glob calls back with the files of dependency d (lines 84-87)
GlobResolve(i, d) ==
  /\ i \in DOMAIN passes
  /\ passes[i].deps[d].st = "glob"
  /\ LET s == startAll(Registry(schemas, schemaExtensions), GlobFiles(d),
                       <<i, d>>, EmptyBag)
     IN  /\ schemaExtensions' = s.R.schemaExtensions
         /\ tasks' = tasks (+) s.started
  /\ passes' = [passes EXCEPT ![i].deps[d].st = "wait"]
  /\ log' = <<>>
  /\ ret' = NoRet
  /\ UNCHANGED <<pc, config, formats, keywords, schemas, ord>>

\* glob calls back with an error: the dependency's task rejects, and with
\* it Promise.all (line 83) unless it has settled already
GlobReject(i, d) ==
  /\ i \in DOMAIN passes
  /\ passes[i].deps[d].st = "glob"
  /\ LET ps == [passes EXCEPT ![i].deps[d].st = "failed",
                              ![i].status = "rejected"]
     IN  passes' = Retire(ps, i)
  /\ ret' = IF passes[i].status = "pending"
            THEN Ret("registerSchemas", "rejected", Undefined, 0) ELSE NoRet
  /\ log' = <<>>
  /\ UNCHANGED <<pc, config, formats, keywords, schemas, schemaExtensions,
                 tasks, ord>>

\* the rejected results of a dependency, in the order of its files
RejectedLogNothing(files, results) == <<>>

RECURSIVE rejectedLog(_, _)
rejectedLog(files, results) ==
  IF files = <<>> THEN <<>>
  ELSE LET r == CHOOSE x \in results : x.filePath = Head(files)
       IN  (IF r.status = "rejected"
            THEN <<LogEntry("warn", r.reason, r.name, r.filePath)>> ELSE <<>>)
           \o rejectedLog(Tail(files), results)

\* Promise.allSettled has every result of dependency d: the rejected ones
\* are logged (lines 87-89) and the dependency's task fulfils; Promise.all
\* fulfils with the last of them
DepFinish(i, d) ==
  /\ i \in DOMAIN passes
  /\ passes[i].deps[d].st = "wait"
  /\ {r.filePath : r \in passes[i].deps[d].results} = Range(GlobFiles(d))
  /\ log' = rejectedLog(GlobFiles(d), passes[i].deps[d].results)
  /\ LET ps == [passes EXCEPT ![i].deps[d].st = "done"]
         all == \A e \in Deps : ps[i].deps[e].st = "done"
     IN  /\ passes' = Retire([ps EXCEPT ![i].status =
                                IF all THEN "resolved" ELSE @], i)
         /\ ret' = IF all THEN Ret("registerSchemas", "resolved", Undefined, 0)
                   ELSE NoRet
  /\ UNCHANGED <<pc, config, formats, keywords, schemas, schemaExtensions,
                 tasks, ord>>

(***************************************************************************)
(* The validation engine: string formats and keywords.                     *)
(***************************************************************************)
\* A candidate pattern with what safe-regex measures on it: whether it
\* parses, its star height and its number of repetitions.
Pattern(source, parses, starHeight, reps) ==
  [source |-> source, parses |-> parses, starHeight |-> starHeight,
   reps |-> reps]

\* /.*/, the pattern installed in place of an unsafe one (line 61)
Fallback == Pattern(".*", TRUE, 1, 1)

\* the built-in formats of init() (lines 41-46), in the order of the literal
BuiltinFormats ==
  << <<"date-time", Pattern("[A-za-z0-9:+()]+", TRUE, 1, 1)>>,
     <<"email", Pattern("^[A-Z0-9a-z._%+-]+@[A-Za-z0-9.-]+\\.[A-Za-z]{2,6}$",
                        TRUE, 1, 3)>>,
     <<"time", Pattern("^(\\d{2}):(\\d{2}):(\\d{2})\\+(\\d{2}):(\\d{2})$",
                       TRUE, 1, 5)>>,
     <<"uri", Pattern("^(.+):\\/\\/(www\\.)?[-a-zA-Z0-9@:%_+.~#?&//=]{1,256}",
                      TRUE, 1, 3)>> >>

\* candidate patterns of the overrides and of later calls: a safe one, the
\* nested quantifier (a+)+$, a pattern with more than 25 repetitions, one
\* that does not parse, and the fallback itself
Candidates ==
  {Pattern("^[a-z]+$", TRUE, 1, 1),
   Pattern("(a+)+$", TRUE, 2, 2),
   Pattern("a?a?a?a?a?a?a?a?a?a?a?a?a?a?a?a?a?a?a?a?a?a?a?a?a?a?", TRUE, 1, 26),
   Pattern("(", FALSE, 0, 0),
   Fallback}

\* safeRegex(re): false when the pattern does not parse, nests a repetition
\* in a repetition, or has more than 25 repetitions
safeRegex(re) == re.parses /\ re.starHeight <= 1 /\ re.reps <= 25

\* one turn of the forEach of addStringFormats (lines 59-61) on the
\* validator's formats fs and the log lg
AddFormatVerbatim(V, name, re) ==
  LET isUnsafe == ~safeRegex(re)
  IN  [formats |-> Put(V.formats, name, re),
       log |-> IF isUnsafe
               THEN Append(V.log, LogEntry("warn", "unsafe RegExp", name, 0))
               ELSE V.log]

addFormat(V, name, re) ==
  LET isUnsafe == ~safeRegex(re)
  IN  [formats |-> Put(V.formats, name, IF isUnsafe THEN Fallback ELSE re),
       log |-> IF isUnsafe
               THEN Append(V.log, LogEntry("warn", "unsafe RegExp", name, 0))
               ELSE V.log]

\* addStringFormats(formats): Object.entries(formats).forEach(...)
RECURSIVE addStringFormats(_, _)
addStringFormats(V, entries) ==
  IF entries = <<>> THEN V
  ELSE addStringFormats(addFormat(V, Head(entries)[1], Head(entries)[2]),
                        Tail(entries))

\* the keywords Ajv knows from the start stand for its standard vocabulary
StandardKeywords == {"type"}

\* keyword definitions a caller may pass: one whose keyword exists already,
\* a new one, and one whose name the engine refuses
KeywordDefinitions ==
  {[keyword |-> "type"], [keyword |-> "isDate"], [keyword |-> "not a name"]}

\* this.validator.addKeyword(definition) throws for a keyword that is
\* defined already and for a name that is no identifier
EngineRejects(kws, definition) ==
  definition.keyword \in kws \/ definition.keyword = "not a name"

\* addKeyword(definition), lines 69-75
AddKeywordNoCatch(kws, definition) ==
  IF EngineRejects(kws, definition)
  THEN [keywords |-> kws, status |-> "threw", log |-> <<>>]
  ELSE [keywords |-> kws \cup {definition.keyword}, status |-> "ok",
        log |-> <<>>]

addKeyword(kws, definition) ==
  IF EngineRejects(kws, definition)
  THEN [keywords |-> kws, status |-> "ok",
        log |-> <<LogEntry("warn", "failed to define keyword",
                           definition.keyword, 0)>>]
  ELSE [keywords |-> kws \cup {definition.keyword}, status |-> "ok",
        log |-> <<>>]

AddKeyword(definition) ==
  /\ pc # "init"
  /\ LET r == addKeyword(keywords, definition)
     IN  /\ keywords' = r.keywords
         /\ log' = r.log
         /\ ret' = Ret("addKeyword", r.status, definition.keyword, 0)
  /\ UNCHANGED <<pc, config, formats, schemas, schemaExtensions, tasks,
                 passes, ord>>

\* addStringFormats(formats) called from outside init()
AddStringFormats(entries) ==
  /\ pc # "init"
  /\ LET V == addStringFormats([formats |-> formats, log |-> <<>>], entries)
     IN  /\ formats' = V.formats
         /\ log' = V.log
  /\ ret' = Ret("addStringFormats", "ok", Undefined, 0)
  /\ UNCHANGED <<pc, config, keywords, schemas, schemaExtensions, tasks,
                 passes, ord>>

\* the formats once init() has installed the built-in ones
InstalledBuiltins ==
  addStringFormats([formats |-> <<>>, log |-> <<>>], BuiltinFormats)

(***************************************************************************)
(* The registry in service: init() has run, its callers register,          *)
(* deregister, extend and resolve schemas.                                 *)
(***************************************************************************)
Init ==
  /\ pc = "done"
  /\ config = [present |-> TRUE, overrides |-> <<>>]
  /\ formats = InstalledBuiltins.formats
  /\ keywords = StandardKeywords
  /\ schemas = <<>>
  /\ schemaExtensions = <<>>
  /\ tasks = EmptyBag
  /\ passes = <<>>
  /\ log = <<>>
  /\ ret = NoRet
  /\ ord = <<>>

\* the registerSchema calls of the callers: every well-formed file, and the
\* second file of schema a also with options.replace
Calls == ((1..5) \X {FALSE}) \cup {<<2, TRUE>>}

\* the getSchema calls of the callers: every name compiled, schema a also raw
GetCalls == (Names \X {TRUE}) \cup {<<"a", FALSE>>}

Next ==
  \/ RegisterSchemaInvalid
  \/ \E c \in Calls : RegisterSchema(c[1], c[2])
  \/ \E t \in BagToSet(tasks) : SettleRegister(t)
  \/ \E name \in Names : DeregisterSchema(name)
  \/ ExtendSchema("a", "b")
  \/ \E g \in GetCalls : GetSchema(g[1], g[2])

Spec == Init /\ [][Next]_vars

(***************************************************************************)
(* A registerSchemas pass that runs alone, while keywords are added.       *)
(***************************************************************************)
RegisterSchemasAlone ==
  /\ passes = <<>>
  /\ tasks = EmptyBag
  /\ RegisterSchemas

NextDiscover ==
  \/ RegisterSchemasAlone
  \/ \E i \in PassIds, d \in Deps : GlobResolve(i, d)
  \/ \E i \in PassIds, d \in Deps : GlobReject(i, d)
  \/ \E t \in BagToSet(tasks) : SettleRegister(t)
  \/ \E i \in PassIds, d \in Deps : DepFinish(i, d)
  \/ \E definition \in KeywordDefinitions : AddKeyword(definition)

SpecDiscover == Init /\ [][NextDiscover]_vars

(***************************************************************************)
(* Passes running while callers register and deregister schemas.           *)
(***************************************************************************)
\* the files callers register while passes run
ApiPaths == {4, 5, 6}

NextConcurrent ==
  \/ RegisterSchemas
  \/ \E i \in PassIds, d \in Deps : GlobResolve(i, d)
  \/ \E i \in PassIds, d \in Deps : GlobReject(i, d)
  \/ \E t \in BagToSet(tasks) : SettleRegister(t)
  \/ \E i \in PassIds, d \in Deps : DepFinish(i, d)
  \/ \E filePath \in ApiPaths, replace \in BOOLEAN : RegisterSchema(filePath, replace)
  \/ DeregisterSchema("b")

SpecConcurrent == Init /\ [][NextConcurrent]_vars

(***************************************************************************)
(* A schema is registered from a file outside the dependencies, then       *)
(* registerSchemas runs alone.                                             *)
(***************************************************************************)
\* the file no glob finds
Outside == 7

\* registerSchema(Outside) while no pass runs
RegisterOutside ==
  /\ passes = <<>>
  /\ RegisterSchema(Outside, FALSE)

NextRediscover ==
  \/ RegisterOutside
  \/ RegisterSchemasAlone
  \/ \E i \in PassIds, d \in Deps : GlobResolve(i, d)
  \/ \E i \in PassIds, d \in Deps : GlobReject(i, d)
  \/ \E t \in BagToSet(tasks) : SettleRegister(t)
  \/ \E i \in PassIds, d \in Deps : DepFinish(i, d)

SpecRediscover == Init /\ [][NextRediscover]_vars

(***************************************************************************)
(* Startup: init() and its promise chain (lines 15-52), with calls of      *)
(* addStringFormats from other modules in between.                         *)
(***************************************************************************)
\* the values getConfig('formatOverrides') may have: none at all, an empty
\* mapping, an override of the built-in email format by each candidate, and
\* an unsafe override together with a new format
Configs ==
  {[present |-> FALSE, overrides |-> <<>>],
   [present |-> TRUE, overrides |-> <<>>]}
  \cup {[present |-> TRUE, overrides |-> << <<"email", p>> >>] : p \in Candidates}
  \cup {[present |-> TRUE,
         overrides |-> << <<"email", Pattern("(a+)+$", TRUE, 2, 2)>>,
                          <<"slug", Pattern("^[a-z]+$", TRUE, 1, 1)>> >>]}

InitStartup ==
  /\ pc = "init"
  /\ config \in Configs
  /\ formats = <<>>
  /\ keywords = {}
  /\ schemas = <<>>
  /\ schemaExtensions = <<>>
  /\ tasks = EmptyBag
  /\ passes = <<>>
  /\ log = <<>>
  /\ ret = NoRet
  /\ ord = <<>>

\* init(), lines 16-47: the catalog, the ledger, the validator and the
\* built-in formats; the chain of lines 47-51 is started
InitModule ==
  /\ pc = "init"
  /\ schemas' = <<>>
  /\ schemaExtensions' = <<>>
  /\ keywords' = StandardKeywords
  /\ formats' = InstalledBuiltins.formats
  /\ log' = InstalledBuiltins.log
  /\ ret' = NoRet
  /\ pc' = "onReady"
  /\ UNCHANGED <<config, tasks, passes, ord>>

\* this.onReady() fulfils (line 47)
OnReady ==
  /\ pc = "onReady"
  /\ pc' = "waitForModule"
  /\ log' = <<>>
  /\ ret' = NoRet
  /\ UNCHANGED <<config, formats, keywords, schemas, schemaExtensions, tasks,
                 passes, ord>>

\* this.app.waitForModule('config', 'errors') fulfils (line 48)
WaitForModule ==
  /\ pc = "waitForModule"
  /\ pc' = "formatOverrides"
  /\ log' = <<>>
  /\ ret' = NoRet
  /\ UNCHANGED <<config, formats, keywords, schemas, schemaExtensions, tasks,
                 passes, ord>>

\* line 49: this.addStringFormats(this.getConfig('formatOverrides')).
\* Object.entries throws a TypeError for undefined, which line 51 logs.
FormatOverridesSkipped ==
  /\ pc = "formatOverrides"
  /\ pc' = "registerSchemas"
  /\ log' = <<>>
  /\ ret' = NoRet
  /\ UNCHANGED <<config, formats, keywords, schemas, schemaExtensions, tasks,
                 passes, ord>>

FormatOverrides ==
  /\ pc = "formatOverrides"
  /\ IF config.present
     THEN LET V == addStringFormats([formats |-> formats, log |-> <<>>],
                                    config.overrides)
          IN  /\ formats' = V.formats
              /\ log' = V.log
              /\ pc' = "registerSchemas"
     ELSE /\ formats' = formats
          /\ log' = <<LogEntry("error", "TypeError", Undefined, 0)>>
          /\ pc' = "failed"
  /\ ret' = NoRet
  /\ UNCHANGED <<config, keywords, schemas, schemaExtensions, tasks, passes,
                 ord>>

\* line 50: this.registerSchemas()
StartDiscovery ==
  /\ pc = "registerSchemas"
  /\ registerSchemas
  /\ pc' = "discovering"

\* the formats other modules add
CallEntries == {<< <<"slug", p>> >> : p \in Candidates}

NextStartup ==
  \/ InitModule
  \/ OnReady
  \/ WaitForModule
  \/ FormatOverrides
  \/ StartDiscovery
  \/ \E entries \in CallEntries : AddStringFormats(entries)

SpecStartup == InitStartup /\ [][NextStartup]_vars

\* The callbacks of the chain run once the promise before them has
\* fulfilled: the steps of lines 49 and 50 are not postponed for ever.
SpecStartupFair ==
  /\ SpecStartup
  /\ WF_vars(FormatOverrides)
  /\ WF_vars(StartDiscovery)

(***************************************************************************)
(* Order experiments: three files, a base and two schemas that name it as  *)
(* their patch source, are registered into a registry that starts empty;   *)
(* the order in which their registrations complete is one of three.        *)
(***************************************************************************)
\* file 1 holds the base, files 2 and 3 its extensions in the order in which
\* their registrations complete; the base completes first, second or last
Orders == {<<1, 2, 3>>, <<2, 1, 3>>, <<2, 3, 1>>}

\* the documents of a base named n: without $patch, with a $patch that has
\* no source, and with another schema as patch source
BaseDocs(n) ==
  {Doc(TRUE, n, FALSE, Undefined), Doc(TRUE, n, TRUE, Undefined)}
  \cup {Doc(TRUE, n, TRUE, m) : m \in Names \ {n}}

OrderDocs ==
  {<<dA, Doc(TRUE, e1, TRUE, dA.name), Doc(TRUE, e2, TRUE, dA.name)>> :
     dA \in UNION {BaseDocs(n) : n \in Names}, e1 \in Names, e2 \in Names}

InitOrder ==
  /\ pc = "done"
  /\ config = [present |-> TRUE, overrides |-> <<>>]
  /\ formats = InstalledBuiltins.formats
  /\ keywords = StandardKeywords
  /\ schemas = <<>>
  /\ schemaExtensions = <<>>
  /\ tasks = EmptyBag
  /\ passes = <<>>
  /\ log = <<>>
  /\ ret = NoRet
  /\ \E docs \in OrderDocs, order \in Orders :
       /\ Cardinality({docs[1].name, docs[2].name, docs[3].name}) = 3
       /\ ord = [docs |-> docs, order |-> order, R |-> EmptyRegistry,
                 started |-> <<>>, done |-> 0]

OrderSettled == {ord.order[j] : j \in 1..ord.done}

\* registerSchema(f) is called and runs up to its await
OrderStart(f) ==
  /\ f \notin DOMAIN ord.started
  /\ f \notin OrderSettled
  /\ LET c == createSchema(ord.R, f)
     IN  ord' = [ord EXCEPT !.R = c.R, !.started = Put(@, f, c.schema)]
  /\ UNCHANGED <<pc, config, formats, keywords, schemas, schemaExtensions,
                 tasks, passes, log, ret>>

\* the next file of the order has loaded and its registerSchema call runs
\* to its end
OrderSettle ==
  /\ ord.done < 3
  /\ ord.order[ord.done + 1] \in DOMAIN ord.started
  /\ LET f == ord.order[ord.done + 1]
         r == settleRegister(ord.R, ord.started[f], ord.docs[f], FALSE)
     IN  ord' = [ord EXCEPT !.R = r.R,
                            !.started = Delete(@, f),
                            !.done = @ + 1]
  /\ UNCHANGED <<pc, config, formats, keywords, schemas, schemaExtensions,
                 tasks, passes, log, ret>>

NextOrder ==
  \/ \E f \in 1..3 : OrderStart(f)
  \/ OrderSettle

SpecOrder == InitOrder /\ [][NextOrder]_vars

\* registerSchema called for each file of files in turn on registry R, each
\* call running to its end before the next is made
RECURSIVE registerInTurn(_, _, _)
registerInTurn(R, docs, files) ==
  IF files = <<>> THEN R
  ELSE LET c == createSchema(R, Head(files))
           r == settleRegister(c.R, c.schema, docs[Head(files)], FALSE)
       IN  registerInTurn(r.R, docs, Tail(files))

\* the catalog as the file each name is mapped to
CatalogFiles(R) == [n \in DOMAIN R.schemas |-> R.schemas[n].filePath]

ExtensionsOf(R, n) == R.schemas[n].extensions

(***************************************************************************)
(* C2: a base A and a schema B that names A as its patch source, both      *)
(* registered into an empty registry.  When B completes first and A        *)
(* second, the catalog maps the same names to the same files and A has     *)
(* the same extension sequence as when A is registered first and B second. *)
(***************************************************************************)
C2_LedgerOrderIndependence ==
  (ord.order = <<2, 1, 3>> /\ ord.done = 2) =>
    LET A == ord.docs[1].name
        first == registerInTurn(EmptyRegistry, ord.docs, <<1, 2>>)
    IN  /\ CatalogFiles(ord.R) = CatalogFiles(first)
        /\ ExtensionsOf(ord.R, A) = ExtensionsOf(first, A)

\* B was parked in the ledger and reached A from there
C2_Witness ==
  /\ ord.order = <<2, 1, 3>> /\ ord.done = 2
  /\ ExtensionsOf(ord.R, ord.docs[1].name) = <<ord.docs[2].name>>
  /\ Pending(ord.R, ord.docs[1].name) = <<ord.docs[2].name>>

(***************************************************************************)
(* C4: when the registrations of the extensions E1 and E2 of a base A      *)
(* complete in that order, A's extension sequence is E1, E2, whether A     *)
(* was registered before both, between them or after both.                 *)
(***************************************************************************)
C4_ExtensionOrder ==
  LET A == ord.docs[1].name
      E == [j \in 1..2 |-> ord.docs[j + 1].name]
      seen == {j \in 1..2 : (j + 1) \in OrderSettled}
  IN  1 \in OrderSettled =>
        ExtensionsOf(ord.R, A) =
          (IF 1 \in seen THEN <<E[1]>> ELSE <<>>)
          \o (IF 2 \in seen THEN <<E[2]>> ELSE <<>>)

\* both extensions were parked in the ledger before A registered
C4_Witness ==
  /\ ord.order = <<2, 3, 1>> /\ ord.done = 3
  /\ ExtensionsOf(ord.R, ord.docs[1].name) = <<ord.docs[2].name, ord.docs[3].name>>

(***************************************************************************)
(* C1: no schema name that is in the catalog has an entry in the           *)
(* extension ledger.  (Every state of the model is one in which no         *)
(* registration is inside its synchronous part.)                           *)
(***************************************************************************)
C1_LedgerInvariant ==
  \A n \in DOMAIN schemas : n \notin DOMAIN schemaExtensions

(***************************************************************************)
(* C3: when registerSchema with options.replace succeeds for a name that   *)
(* has a unit already, the new unit carries no extension that was          *)
(* recorded for the old unit, in its extension sequence or in the ledger   *)
(* entry of the name, and the ledger has no entry for the name afterwards. *)
(***************************************************************************)
Replaced(n) ==
  /\ ret'.op = "registerSchema" /\ ret'.status = "ok" /\ ret'.name = n
  /\ n \in DOMAIN schemas

C3_NoStaleExtension ==
  [][\A n \in Names :
       Replaced(n) =>
         /\ Range(schemas'[n].extensions)
              \cap (Range(schemas[n].extensions)
                    \cup Range(Pending(Registry(schemas, schemaExtensions), n)))
              = {}
         /\ n \notin DOMAIN schemaExtensions']_vars

(***************************************************************************)
(* C5: when a registerSchema call loads a schema whose name is in the      *)
(* catalog, it fails with SCHEMA_EXISTS carrying the name and the file     *)
(* path and the catalog keeps the prior unit, unless options.replace is    *)
(* set: then it succeeds and the catalog maps the name to the new unit.    *)
(***************************************************************************)
C5_NameConflict ==
  [][\A t \in BagToSet(tasks) :
       LET doc == File(t.filePath)
       IN  (tasks' = tasks (-) SetToBag({t}) /\ doc.ok
            /\ doc.name \in DOMAIN schemas) =>
             /\ doc.name \in DOMAIN schemas'
             /\ IF t.replace
                THEN /\ ret' = Ret("registerSchema", "ok", doc.name, t.filePath)
                     /\ schemas'[doc.name].filePath = t.filePath
                ELSE /\ ret' = Ret("registerSchema", "SCHEMA_EXISTS", doc.name,
                                   t.filePath)
                     /\ schemas'[doc.name] = schemas[doc.name]]_vars

\* a second file declared a registered name and was refused
C5_Witness ==
  /\ ret.op = "registerSchema" /\ ret.status = "SCHEMA_EXISTS"
  /\ ret.name \in DOMAIN schemas
  /\ schemas[ret.name].filePath # ret.filePath

(***************************************************************************)
(* C6: getSchema(name) fails with NOT_FOUND exactly when name is not in    *)
(* the catalog, so also right after deregisterSchema(name); for a name in  *)
(* the catalog it hands the call and its options to that unit's build.     *)
(***************************************************************************)
C6_ResolveNotFound ==
  [][ret'.op = "getSchema" =>
       /\ (ret'.status = "NOT_FOUND") <=> (ret'.name \notin DOMAIN schemas)
       /\ ret'.name \in DOMAIN schemas =>
            /\ ret'.status = "build"
            /\ ret'.filePath = schemas[ret'.name].filePath
       /\ (ret.op = "deregisterSchema" /\ ret.name = ret'.name) =>
            ret'.status = "NOT_FOUND"]_vars

\* schema c was registered (it extends a), deregistered and then asked for
C6_Witness ==
  /\ ret.op = "getSchema" /\ ret.status = "NOT_FOUND" /\ ret.name = "c"
  /\ "a" \in DOMAIN schemas
  /\ "c" \in Range(schemas["a"].extensions)

(***************************************************************************)
(* C7: in a pass that runs alone, a file that fails to load or to          *)
(* register never makes registerSchemas reject (only a failed glob does),  *)
(* every rejected registration of a dependency is logged as a warning      *)
(* when the dependency's files have settled, and when the pass fulfils     *)
(* every file that loads and whose name no other file of the pass          *)
(* declares is in the catalog.                                             *)
(***************************************************************************)
PassFiles == UNION {Range(GlobFiles(d)) : d \in Deps}

\* the files of a pass that load and whose name no other of them declares
SoleFiles ==
  {f \in PassFiles :
     /\ File(f).ok
     /\ \A g \in PassFiles \ {f} : File(g).ok => File(g).name # File(f).name}

Rejects(i) ==
  /\ passes[i].status = "pending"
  /\ i \notin DOMAIN passes' \/ passes'[i].status = "rejected"
  /\ ret'.status = "rejected"

Fulfils(i) ==
  /\ passes[i].status = "pending"
  /\ i \notin DOMAIN passes'
  /\ ret'.op = "registerSchemas" /\ ret'.status = "resolved"

\* dependency d of pass i ends its wait for the registrations of its files
Finishes(i, d) ==
  /\ passes[i].deps[d].st = "wait"
  /\ i \notin DOMAIN passes' \/ passes'[i].deps[d].st = "done"

C7_DiscoveryIsolatesFailures ==
  [][\A i \in DOMAIN passes :
       /\ Rejects(i) => \E d \in Deps : passes[i].deps[d].st = "glob" /\ tasks' = tasks
       /\ \A d \in Deps :
            Finishes(i, d) =>
              /\ {e.filePath : e \in Range(log')} =
                   {r.filePath : r \in {x \in passes[i].deps[d].results :
                                          x.status = "rejected"}}
              /\ \A e \in Range(log') : e.level = "warn"
       /\ Fulfils(i) =>
            \A f \in SoleFiles :
              /\ File(f).name \in DOMAIN schemas'
              /\ schemas'[File(f).name].filePath = f]_vars

\* a pass fulfilled although one file was malformed and one was refused for
\* its name; the schemas of files 3 and 4 are registered
C7_Witness ==
  /\ ret.op = "registerSchemas" /\ ret.status = "resolved"
  /\ {e.msg : e \in Range(log)} = {"SCHEMA_EXISTS", "LOAD_ERROR"}
  /\ {"b", "c"} \subseteq DOMAIN schemas

(***************************************************************************)
(* C8: when a pass fulfils, every schema of the catalog was registered by  *)
(* that pass from one of the files it found.                               *)
(***************************************************************************)
RegisteredBy(i, n, filePath) ==
  \E d \in Deps : \E r \in passes[i].deps[d].results :
    r.status = "fulfilled" /\ r.name = n /\ r.filePath = filePath

C8_DiscoveryIsFullReset ==
  [][\A i \in DOMAIN passes :
       Fulfils(i) =>
         \A n \in DOMAIN schemas' : RegisteredBy(i, n, schemas'[n].filePath)]_vars

(***************************************************************************)
(* C9: whenever formats are registered (the built-in ones, the overrides   *)
(* of the configuration, a later call), the pattern installed under each   *)
(* name is the candidate if safeRegex accepts it and /.*/ otherwise, and   *)
(* a warning naming the format is logged exactly when /.*/ stands in.      *)
(***************************************************************************)
Guarded(entries) ==
  \A j \in DOMAIN entries :
    LET name == entries[j][1]
        re == entries[j][2]
    IN  /\ name \in DOMAIN formats'
        /\ formats'[name] = IF safeRegex(re) THEN re ELSE Fallback
        /\ (\E e \in Range(log') : e.level = "warn" /\ e.name = name)
             <=> ~safeRegex(re)

C9_FormatGuard ==
  [][/\ InitModule => Guarded(BuiltinFormats)
     /\ (FormatOverrides /\ config.present) => Guarded(config.overrides)
     /\ \A entries \in CallEntries : AddStringFormats(entries) => Guarded(entries)
     /\ \A name \in DOMAIN formats' : safeRegex(formats'[name])]_vars

\* the configuration's override of email was unsafe and /.*/ stands in
C9_Witness ==
  /\ pc = "registerSchemas"
  /\ config.overrides # <<>>
  /\ config.overrides[1][1] = "email"
  /\ ~safeRegex(config.overrides[1][2])
  /\ formats["email"] = Fallback
  /\ \E e \in Range(log) : e.level = "warn" /\ e.name = "email"

BuiltinNames == {BuiltinFormats[j][1] : j \in DOMAIN BuiltinFormats}

Guard(re) == IF safeRegex(re) THEN re ELSE Fallback

C11_StartupOrdering ==
  [][/\ pc = "init" => formats = <<>>
     /\ pc' \in {"onReady", "waitForModule", "formatOverrides"} =>
          \A j \in DOMAIN BuiltinFormats :
            formats'[BuiltinFormats[j][1]] = Guard(BuiltinFormats[j][2])
     /\ (pc # "discovering" /\ pc' = "discovering") =>
          /\ pc = "registerSchemas"
          /\ config.present
          /\ formats' = formats
          /\ \A j \in DOMAIN config.overrides :
               config.overrides[j][1] \in BuiltinNames =>
                 formats[config.overrides[j][1]] = Guard(config.overrides[j][2])]_vars

\* discovery has started with a safe override of the built-in email format
\* in effect
C11_Witness ==
  /\ pc = "discovering"
  /\ passes # <<>>
  /\ config.overrides # <<>>
  /\ config.overrides[1][1] = "email"
  /\ safeRegex(config.overrides[1][2])
  /\ formats["email"] = config.overrides[1][2]
  /\ formats["email"] # InstalledBuiltins.formats["email"]

(***************************************************************************)
(* C12: deregisterSchema(name) returns normally; afterwards the catalog    *)
(* is the one before without the entry of name (the same catalog when      *)
(* name was absent), every remaining unit is as it was, the units that     *)
(* list name as an extension included, and the ledger is unchanged.        *)
(***************************************************************************)
C12_DeregisterFrame ==
  [][ret'.op = "deregisterSchema" =>
       /\ ret'.status = "ok"
       /\ DOMAIN schemas' = (DOMAIN schemas) \ {ret'.name}
       /\ \A m \in DOMAIN schemas' : schemas'[m] = schemas[m]
       /\ schemaExtensions' = schemaExtensions
       /\ tasks' = tasks]_vars

\* schema c was deregistered: a still lists it as an extension and the
\* ledger still holds its entries
C12_Witness ==
  /\ ret.op = "deregisterSchema" /\ ret.name = "c"
  /\ "c" \notin DOMAIN schemas
  /\ "a" \in DOMAIN schemas
  /\ "c" \in Range(schemas["a"].extensions)
  /\ DOMAIN schemaExtensions # {}

(***************************************************************************)
(* C13: the registrations of a base A and of two schemas E1, E2 that name  *)
(* A as their patch source are started in any order, each is suspended at  *)
(* its load for any length of time, and they complete with A first,        *)
(* between or last.  Once the three have completed, A is in the catalog    *)
(* with the file of its registration and lists E1 and E2.                  *)
(***************************************************************************)
C13_NoExtensionLost ==
  ord.done = 3 =>
    LET A == ord.docs[1].name
    IN  /\ A \in DOMAIN ord.R.schemas
        /\ ord.R.schemas[A].filePath = 1
        /\ {ord.docs[2].name, ord.docs[3].name}
             \subseteq Range(ExtensionsOf(ord.R, A))

\* both extensions were parked in the ledger before A completed, and A
\* lists both
C13_Witness ==
  /\ ord.done = 3
  /\ ord.order = <<2, 3, 1>>
  /\ Len(Pending(ord.R, ord.docs[1].name)) = 2
  /\ {ord.docs[2].name, ord.docs[3].name}
       \subseteq Range(ExtensionsOf(ord.R, ord.docs[1].name))

(***************************************************************************)
(* C14: when registerSchemas() settles it fulfils, also when the glob of   *)
(* a dependency failed, and at that moment no dependency of the pass is    *)
(* still scanning and no registration of its files is still in flight.     *)
(***************************************************************************)
C14_GlobFailureIsPerItem ==
  [][\A i \in DOMAIN passes :
       (passes[i].status = "pending" /\ ret'.op = "registerSchemas") =>
         /\ ret'.status = "resolved"
         /\ i \notin DOMAIN passes'
         /\ \A t \in BagToSet(tasks') : t.owner[1] # i]_vars

(***************************************************************************)
(* C15: the files of a pass are registered concurrently into the cleared   *)
(* catalog, none with replace.  When the pass fulfils, of the files that   *)
(* declare one name exactly one was registered, the catalog holds that     *)
(* one, and every other was refused with SCHEMA_EXISTS.  The step that     *)
(* puts a name into the catalog also gives the unit the pending            *)
(* extensions of its name.                                                 *)
(***************************************************************************)
PassResults(i) == UNION {passes[i].deps[d].results : d \in Deps}

Declaring(i, n) ==
  {r \in PassResults(i) : File(r.filePath).ok /\ File(r.filePath).name = n}

C15_RegistrationAtomic ==
  [][/\ \A i \in DOMAIN passes :
          Fulfils(i) =>
            \A n \in Names :
              Declaring(i, n) # {} =>
                /\ Cardinality({r \in Declaring(i, n) : r.status = "fulfilled"}) = 1
                /\ \A r \in Declaring(i, n) :
                     IF r.status = "fulfilled"
                     THEN n \in DOMAIN schemas' /\ schemas'[n].filePath = r.filePath
                     ELSE r.reason = "SCHEMA_EXISTS"
     /\ \A n \in Names :
          (n \notin DOMAIN schemas /\ n \in DOMAIN schemas') =>
            Range(Pending(Registry(schemas, schemaExtensions), n))
              \subseteq Range(schemas'[n].extensions)]_vars

\* the two files that declare schema a were in flight together; file 2
\* completed first and file 1 was refused
C15_Witness ==
  /\ ret.op = "registerSchemas" /\ ret.status = "resolved"
  /\ \E e \in Range(log) : e.msg = "SCHEMA_EXISTS" /\ e.filePath = 1
  /\ "a" \in DOMAIN schemas
  /\ schemas["a"].filePath = 2

(***************************************************************************)
(* C16: once the host is ready and the configuration module is available   *)
(* (the chain stands before line 49), discovery is eventually started,     *)
(* whatever getConfig('formatOverrides') gives.                            *)
(***************************************************************************)
C16_StartupLiveness == (pc = "formatOverrides") ~> (pc = "discovering")

(***************************************************************************)
(* C17: a registerSchema call that fails leaves the catalog, every unit    *)
(* and the ledger as they were: the step in which it throws               *)
(* (INVALID_PARAMS, a load error, SCHEMA_EXISTS) changes none of them,     *)
(* and neither does the first half of a call for a file that cannot be     *)
(* loaded.                                                                 *)
(***************************************************************************)
RegistryUnchanged ==
  schemas' = schemas /\ schemaExtensions' = schemaExtensions

FailsNow == ret'.op = "registerSchema" /\ ret'.status # "ok"

\* a caller's registerSchema call for a malformed file runs up to its await
StartsToFail ==
  \E t \in BagToSet(tasks') :
    /\ tasks' = tasks (+) SetToBag({t})
    /\ t.owner = Api
    /\ ~File(t.filePath).ok

C17_FailedRegistrationChangesNothing ==
  [][(FailsNow \/ StartsToFail) => RegistryUnchanged]_vars

(***************************************************************************)
(* C18: when a pass fulfils, every name a unit of the catalog lists as     *)
(* an extension is the name of a schema the pass registered.               *)
(***************************************************************************)
C18_ExtensionsOnlyFromPass ==
  [][\A i \in DOMAIN passes :
       Fulfils(i) =>
         \A n \in DOMAIN schemas' :
           \A e \in Range(schemas'[n].extensions) :
             \E r \in PassResults(i) : r.status = "fulfilled" /\ r.name = e]_vars

(***************************************************************************)
(* C19: a registerSchema call that succeeds changes a ledger entry or the  *)
(* extension sequence of another unit only if the document of its file     *)
(* names a patch source, and then only the entry or the unit of exactly    *)
(* that name.                                                              *)
(***************************************************************************)
C19_ExtensionOnlyForDeclaredSource ==
  [][(ret'.op = "registerSchema" /\ ret'.status = "ok") =>
       LET doc == File(ret'.filePath)
           R == Registry(schemas, schemaExtensions)
           R2 == Registry(schemas', schemaExtensions')
           declared == doc.hasPatch /\ doc.ref # Undefined
       IN  /\ \A k \in DOMAIN schemaExtensions' :
                Pending(R2, k) # Pending(R, k) => (declared /\ k = doc.ref)
           /\ \A m \in (DOMAIN schemas') \ {doc.name} :
                /\ m \in DOMAIN schemas
                /\ schemas'[m].extensions # schemas[m].extensions =>
                     (declared /\ m = doc.ref)]_vars

====
